---- MODULE Spec2Model ----
(***************************************************************************)
(* A model of the generators module of ristretto-bulletproofs              *)
(* (src/src/generators.rs): the point derivation chain GeneratorsChain,    *)
(* the Pedersen bases PedersenGenerators with commit, and the generator    *)
(* bank Generators with its views all() and share(j).                      *)
(*                                                                         *)
(* The Ristretto group is a cyclic group of prime order; it is modelled by *)
(* the additive group of integers modulo the prime GroupOrder, scalars by  *)
(* the integers modulo the same prime.  Sha512 followed by                 *)
(* RistrettoPoint::from_hash is a fixed but unknown function from byte     *)
(* strings to points: it is modelled by a lazily sampled table (oracle),   *)
(* so that every property checked holds for every such function.  usize    *)
(* arithmetic keeps a width of UsizeBits bits; whether an overflow panics  *)
(* or wraps depends on the build profile (overflow_checks).                *)
(***************************************************************************)
EXTENDS Integers, Sequences, FiniteSets, TLC

VARIABLES
    overflow_checks, \* build profile: TRUE = overflow panics, FALSE = it wraps
    oracle,          \* the part of Sha512 + from_hash sampled so far
    chains,          \* GeneratorsChain values, with the label and outputs of each
    pg,              \* a PedersenGenerators value, or None
    commits,         \* results of PedersenGenerators::commit
    banks,           \* Generators values, or None
    last             \* the outcome of the last Generators call

vars == <<overflow_checks, oracle, chains, pg, commits, banks, last>>

-----------------------------------------------------------------------------
(* Bounds of the model *)

MaxBits == 2
MaxParties == 4
MaxDraws == 3

(* Program constants, scaled down *)

GroupOrder == 3
UsizeBits == 3

UsizeMod == 2 ^ UsizeBits
Usize == 0 .. (UsizeMod - 1)

None == [none |-> TRUE]

-----------------------------------------------------------------------------
(* The group: RistrettoPoint and Scalar *)

Points == 0 .. (GroupOrder - 1)
Scalars == 0 .. (GroupOrder - 1)
Identity == 0

PointAdd(P, Q) == (P + Q) % GroupOrder
ScalarAdd(a, b) == (a + b) % GroupOrder
ScalarMul(s, P) == (s * P) % GroupOrder

\* ristretto::multiscalar_mul: the sum of scalars[i] * points[i]
RECURSIVE MultiscalarMul(_, _)
MultiscalarMul(scalars, points) ==
    IF scalars = <<>> THEN Identity
    ELSE PointAdd(ScalarMul(Head(scalars), Head(points)),
                  MultiscalarMul(Tail(scalars), Tail(points)))

\* CompressedRistretto::as_bytes: an injective byte encoding of a point
\* (one byte here, 32 in the library)
Compress(P) == <<P>>

-----------------------------------------------------------------------------
(* Byte strings *)

\* b"GeneratorsChainInit"
DomainInit ==
    <<71, 101, 110, 101, 114, 97, 116, 111, 114, 115,
      67, 104, 97, 105, 110, 73, 110, 105, 116>>

\* b"GeneratorsChainNext"
DomainNext ==
    <<71, 101, 110, 101, 114, 97, 116, 111, 114, 115,
      67, 104, 97, 105, 110, 78, 101, 120, 116>>

\* b"Bulletproofs.Generators.B"
LabelB ==
    <<66, 117, 108, 108, 101, 116, 112, 114, 111, 111, 102, 115, 46,
      71, 101, 110, 101, 114, 97, 116, 111, 114, 115, 46, 66>>

\* b"Bulletproofs.Generators.B_blinding"
LabelBBlinding ==
    <<66, 117, 108, 108, 101, 116, 112, 114, 111, 111, 102, 115, 46,
      71, 101, 110, 101, 114, 97, 116, 111, 114, 115, 46, 66,
      95, 98, 108, 105, 110, 100, 105, 110, 103>>

\* the labels a chain is built from: the empty default, the two labels of
\* PedersenGenerators::default, and the encodings of points
Labels == {<<>>, LabelB, LabelBBlinding} \cup {Compress(P) : P \in Points}

HashInputs ==
    {DomainInit \o l : l \in Labels} \cup {DomainNext \o Compress(P) : P \in Points}

-----------------------------------------------------------------------------
(* Sha512 + RistrettoPoint::from_hash *)

\* the table holds <<>> for an input not hashed yet and <<P>> for one whose
\* point is P
Unsampled == <<>>

EmptyOracle == [inp \in HashInputs |-> Unsampled]

Digest(o, inp) == o[inp][1]

\* a mutant: the point is drawn afresh on every call (a random point instead
\* of a hash of the input)
FromHashResampled(o, inp) == {[o EXCEPT ![inp] = <<P>>] : P \in Points}

\* the tables after hashing inp: the table itself when inp was hashed
\* before, and otherwise one table for each point the hash may yield
FromHash(o, inp) ==
    IF o[inp] # Unsampled THEN {o}
    ELSE {[o EXCEPT ![inp] = <<P>>] : P \in Points}

-----------------------------------------------------------------------------
(* GeneratorsChain *)

\* GeneratorsChain::new(label): the chains it may return, each with the table
GeneratorsChainNew(o, label) ==
    {[oracle |-> o2, next_point |-> Digest(o2, DomainInit \o label)] :
        o2 \in FromHash(o, DomainInit \o label)}

\* a mutant: next returns the recomputed cursor
IteratorNextReturnsNew(o, next_point) ==
    {[oracle |-> o2, next_point |-> Digest(o2, DomainNext \o Compress(next_point)),
      item |-> Digest(o2, DomainNext \o Compress(next_point))] :
        o2 \in FromHash(o, DomainNext \o Compress(next_point))}

\* Iterator::next: returns Some(item), item the cursor held before the call,
\* and replaces the cursor
IteratorNext(o, next_point) ==
    {[oracle |-> o2, next_point |-> Digest(o2, DomainNext \o Compress(next_point)),
      item |-> next_point] :
        o2 \in FromHash(o, DomainNext \o Compress(next_point))}

\* .take(k).collect(): k calls of next, their items in order
RECURSIVE TakeCollect(_, _, _)
TakeCollect(o, next_point, k) ==
    IF k = 0 THEN {[oracle |-> o, out |-> <<>>]}
    ELSE UNION {
            {[oracle |-> r.oracle, out |-> <<s.item>> \o r.out] :
                r \in TakeCollect(s.oracle, s.next_point, k - 1)} :
            s \in IteratorNext(o, next_point)}

-----------------------------------------------------------------------------
(* Calls on chains *)

ChainIds == {1, 2}

ChainNewCall(c, label) ==
    /\ chains[c] = None
    /\ \E ch \in GeneratorsChainNew(oracle, label) :
        /\ oracle' = ch.oracle
        /\ chains' = [chains EXCEPT ![c] =
                        [label |-> label, next_point |-> ch.next_point, out |-> <<>>]]
    /\ UNCHANGED <<overflow_checks, pg, commits, banks, last>>

ChainNextCall(c) ==
    /\ chains[c] # None
    /\ Len(chains[c].out) < MaxDraws
    /\ \E s \in IteratorNext(oracle, chains[c].next_point) :
        /\ oracle' = s.oracle
        /\ chains' = [chains EXCEPT ![c] =
                        [label |-> chains[c].label, next_point |-> s.next_point,
                         out |-> Append(chains[c].out, s.item)]]
    /\ UNCHANGED <<overflow_checks, pg, commits, banks, last>>

-----------------------------------------------------------------------------
(* PedersenGenerators *)

\* PedersenGenerators::new(B, B_blinding): the points are taken as they are
PedersenGeneratorsNew(B, B_blinding) == [B |-> B, B_blinding |-> B_blinding]

\* PedersenGenerators::default(): each base is the first output of a chain
\* of its own
PedersenGeneratorsDefault(o) ==
    UNION { UNION { UNION {
        {[oracle |-> s2.oracle, pg |-> [B |-> s1.item, B_blinding |-> s2.item]] :
            s2 \in IteratorNext(c2.oracle, c2.next_point)} :
        c2 \in GeneratorsChainNew(s1.oracle, LabelBBlinding)} :
        s1 \in IteratorNext(c1.oracle, c1.next_point)} :
        c1 \in GeneratorsChainNew(o, LabelB)}

\* a mutant: a stray third term B is added to the sum
CommitStrayTerm(pgv, value, blinding) ==
    MultiscalarMul(<<value, blinding, 1>>, <<pgv.B, pgv.B_blinding, pgv.B>>)

\* a mutant: both scalars multiply B
CommitSameBase(pgv, value, blinding) ==
    MultiscalarMul(<<value, blinding>>, <<pgv.B, pgv.B>>)

\* PedersenGenerators::commit(value, blinding)
Commit(pgv, value, blinding) ==
    MultiscalarMul(<<value, blinding>>, <<pgv.B, pgv.B_blinding>>)

CommitIds == {1, 2, 3}

BankIds == {1, 2}

PedersenNewCall(B, B_blinding) ==
    /\ pg = None
    /\ pg' = PedersenGeneratorsNew(B, B_blinding)
    /\ UNCHANGED <<overflow_checks, oracle, chains, commits, banks, last>>

PedersenDefaultCall ==
    /\ pg = None
    /\ \E r \in PedersenGeneratorsDefault(oracle) :
        /\ oracle' = r.oracle
        /\ pg' = r.pg
    /\ UNCHANGED <<overflow_checks, chains, commits, banks, last>>

CommitCall(i, value, blinding) ==
    /\ pg # None
    /\ commits' = [commits EXCEPT ![i] =
                    [value |-> value, blinding |-> blinding,
                     point |-> Commit(pg, value, blinding)]]
    /\ UNCHANGED <<overflow_checks, oracle, chains, pg, banks, last>>

-----------------------------------------------------------------------------
(* Generators *)

\* a usize product or sum that does not fit
Overflows(x) == x >= UsizeMod

Wrap(x) == x % UsizeMod

Panicked(op, b, j, why) ==
    [op |-> op, bank |-> b, j |-> j, status |-> why,
     G |-> <<>>, H |-> <<>>, pedersen_generators |-> None]

\* a mutant: the chain of H is seeded by B, like the chain of G
GeneratorsNewSameSeed(o, checks, pgv, n, m) ==
    IF checks /\ Overflows(n * m)
    THEN {[oracle |-> o, status |-> "panic_overflow", bank |-> None]}
    ELSE UNION { UNION { UNION {
        {[oracle |-> h.oracle, status |-> "ok",
          bank |-> [n |-> n, m |-> m, pedersen_generators |-> pgv,
                    G |-> g.out, H |-> h.out]] :
            h \in TakeCollect(ch.oracle, ch.next_point, Wrap(n * m))} :
        ch \in GeneratorsChainNew(g.oracle, Compress(pgv.B))} :
        g \in TakeCollect(cg.oracle, cg.next_point, Wrap(n * m))} :
        cg \in GeneratorsChainNew(o, Compress(pgv.B))}

\* a mutant: the two seeds are swapped
GeneratorsNewSwappedSeeds(o, checks, pgv, n, m) ==
    IF checks /\ Overflows(n * m)
    THEN {[oracle |-> o, status |-> "panic_overflow", bank |-> None]}
    ELSE UNION { UNION { UNION {
        {[oracle |-> h.oracle, status |-> "ok",
          bank |-> [n |-> n, m |-> m, pedersen_generators |-> pgv,
                    G |-> g.out, H |-> h.out]] :
            h \in TakeCollect(ch.oracle, ch.next_point, Wrap(n * m))} :
        ch \in GeneratorsChainNew(g.oracle, Compress(pgv.B))} :
        g \in TakeCollect(cg.oracle, cg.next_point, Wrap(n * m))} :
        cg \in GeneratorsChainNew(o, Compress(pgv.B_blinding))}

\* Generators::new(pedersen_generators, n, m): the chain of G is built, n * m
\* is computed, G is collected, and likewise for H.  When n * m panics, the
\* one point hashed before it is dropped with the chain, so the table is
\* left as it was.
GeneratorsNew(o, checks, pgv, n, m) ==
    IF checks /\ Overflows(n * m)
    THEN {[oracle |-> o, status |-> "panic_overflow", bank |-> None]}
    ELSE UNION { UNION { UNION {
        {[oracle |-> h.oracle, status |-> "ok",
          bank |-> [n |-> n, m |-> m, pedersen_generators |-> pgv,
                    G |-> g.out, H |-> h.out]] :
            h \in TakeCollect(ch.oracle, ch.next_point, Wrap(n * m))} :
        ch \in GeneratorsChainNew(g.oracle, Compress(pgv.B_blinding))} :
        g \in TakeCollect(cg.oracle, cg.next_point, Wrap(n * m))} :
        cg \in GeneratorsChainNew(o, Compress(pgv.B))}

\* Generators::all()
All(gens) ==
    [status |-> "ok", G |-> gens.G, H |-> gens.H,
     pedersen_generators |-> gens.pedersen_generators]

\* &v[lower..upper] is in bounds
SliceOk(v, lower, upper) == lower <= upper /\ upper <= Len(v)

\* &v[lower..upper], the indices counted from 0
Slice(v, lower, upper) == SubSeq(v, lower + 1, upper)

\* Generators::share(j)
Share(gens, checks, j) ==
    LET lower == Wrap(gens.n * j)
        upper == Wrap(gens.n * Wrap(j + 1))
    IN  IF checks /\ (Overflows(gens.n * j) \/ Overflows(j + 1)
                        \/ Overflows(gens.n * (j + 1)))
        THEN [status |-> "panic_overflow", G |-> <<>>, H |-> <<>>,
              pedersen_generators |-> None]
        ELSE IF ~SliceOk(gens.G, lower, upper) \/ ~SliceOk(gens.H, lower, upper)
        THEN [status |-> "panic_slice_index", G |-> <<>>, H |-> <<>>,
              pedersen_generators |-> None]
        ELSE [status |-> "ok", G |-> Slice(gens.G, lower, upper),
              H |-> Slice(gens.H, lower, upper),
              pedersen_generators |-> gens.pedersen_generators]

Called(op, b, j, r) ==
    [op |-> op, bank |-> b, j |-> j, status |-> r.status,
     G |-> r.G, H |-> r.H, pedersen_generators |-> r.pedersen_generators]

GeneratorsNewCall(b, B, B_blinding, n, m) ==
    /\ banks[b] = None
    /\ \E r \in GeneratorsNew(oracle, overflow_checks,
                              PedersenGeneratorsNew(B, B_blinding), n, m) :
        /\ oracle' = r.oracle
        /\ banks' = [banks EXCEPT ![b] = r.bank]
        /\ last' = Panicked("new", b, 0, r.status)
    /\ UNCHANGED <<overflow_checks, chains, pg, commits>>

\* a second bank for the configuration (n, m) of bank b0, from bases of its own
GeneratorsNewLikeCall(b, b0, B, B_blinding) ==
    /\ banks[b0] # None
    /\ GeneratorsNewCall(b, B, B_blinding, banks[b0].n, banks[b0].m)

AllCall(b) ==
    /\ banks[b] # None
    /\ last' = Called("all", b, 0, All(banks[b]))
    /\ UNCHANGED <<overflow_checks, oracle, chains, pg, commits, banks>>

\* a mutant: share hands out the window by splitting it off the bank
ShareCallSplitOff(b, j) ==
    /\ banks[b] # None
    /\ last' = Called("share", b, j, Share(banks[b], overflow_checks, j))
    /\ banks' = [banks EXCEPT ![b] =
                    IF last'.status = "ok"
                    THEN [@ EXCEPT !.G = SubSeq(@, Len(last'.G) + 1, Len(@)),
                                   !.H = SubSeq(@, Len(last'.H) + 1, Len(@))]
                    ELSE @]
    /\ UNCHANGED <<overflow_checks, oracle, chains, pg, commits>>

ShareCall(b, j) ==
    /\ banks[b] # None
    /\ last' = Called("share", b, j, Share(banks[b], overflow_checks, j))
    /\ UNCHANGED <<overflow_checks, oracle, chains, pg, commits, banks>>

-----------------------------------------------------------------------------
(* Specifications *)

NoCall == [op |-> "none", bank |-> 0, j |-> 0, status |-> "none",
           G |-> <<>>, H |-> <<>>, pedersen_generators |-> None]

InitCommon ==
    /\ overflow_checks \in BOOLEAN
    /\ oracle = EmptyOracle
    /\ chains = [c \in ChainIds |-> None]
    /\ pg = None
    /\ commits = [i \in CommitIds |-> None]
    /\ banks = [b \in BankIds |-> None]
    /\ last = NoCall

NextChain ==
    \/ \E c \in ChainIds, label \in Labels : ChainNewCall(c, label)
    \/ \E c \in ChainIds : ChainNextCall(c)

SpecChain == InitCommon /\ [][NextChain]_vars

NextCommit ==
    \/ \E B \in Points, B_blinding \in Points : PedersenNewCall(B, B_blinding)
    \/ PedersenDefaultCall
    \/ \E i \in CommitIds, value \in Scalars, blinding \in Scalars :
        CommitCall(i, value, blinding)

SpecCommit == InitCommon /\ [][NextCommit]_vars

NextBank ==
    \/ \E b \in {1}, B \in Points, B_blinding \in Points,
          n \in 0 .. MaxBits, m \in 0 .. MaxParties :
        GeneratorsNewCall(b, B, B_blinding, n, m)
    \/ \E b \in {1} : AllCall(b)
    \/ \E b \in {1}, j \in Usize : ShareCall(b, j)

SpecBank == InitCommon /\ [][NextBank]_vars

NextPair ==
    \/ \E B \in Points, B_blinding \in Points,
          n \in 0 .. MaxBits, m \in 0 .. MaxParties :
        GeneratorsNewCall(1, B, B_blinding, n, m)
    \/ \E B \in Points, B_blinding \in Points :
        GeneratorsNewLikeCall(2, 1, B, B_blinding)

SpecPair == InitCommon /\ [][NextPair]_vars

-----------------------------------------------------------------------------
(* Claims on GeneratorsChain, under SpecChain *)

Built(c) == chains[c] # None

Drawn(c) == Len(chains[c].out)

Min(a, b) == IF a <= b THEN a ELSE b

\* C3: two chains built from the same label have produced the same outputs,
\* position by position, however many each was advanced and in whatever
\* order the advances of the two were interleaved; chains advanced equally
\* often hold the same cursor; and building or advancing one chain leaves
\* every other chain as it was.
C3_Determinism ==
    /\ [](\A c \in ChainIds, d \in ChainIds :
            (Built(c) /\ Built(d) /\ chains[c].label = chains[d].label) =>
                /\ \A i \in 1 .. Min(Drawn(c), Drawn(d)) :
                        chains[c].out[i] = chains[d].out[i]
                /\ Drawn(c) = Drawn(d) =>
                        chains[c].next_point = chains[d].next_point)
    /\ [][\A c \in ChainIds, d \in ChainIds :
            (chains'[c] # chains[c] /\ d # c) => chains'[d] = chains[d]]_vars

\* two chains of one label, both advanced twice or more, one further than
\* the other
C3_Witness ==
    /\ Built(1) /\ Built(2)
    /\ chains[1].label = chains[2].label
    /\ Drawn(1) >= 2 /\ Drawn(2) > Drawn(1)

\* C10: the first output of a chain built from label L is the hash-to-curve
\* of "GeneratorsChainInit" || L, every later output is the hash-to-curve of
\* "GeneratorsChainNext" || encoding of the output before it, the cursor is
\* the point the next advance will return, every output is a point, and a
\* chain can always be advanced once more.
C10_StepOrder ==
    \A c \in ChainIds :
        Built(c) =>
            LET out == chains[c].out
                first == oracle[DomainInit \o chains[c].label]
                after(P) == oracle[DomainNext \o Compress(P)]
            IN  /\ \A i \in 1 .. Len(out) : out[i] \in Points
                /\ Len(out) >= 1 => <<out[1]>> = first
                /\ \A i \in 1 .. (Len(out) - 1) : <<out[i + 1]>> = after(out[i])
                /\ <<chains[c].next_point>> =
                        IF out = <<>> THEN first ELSE after(out[Len(out)])
                /\ Len(out) < MaxDraws => ENABLED ChainNextCall(c)

\* a chain advanced three times
C10_Witness ==
    /\ Built(1)
    /\ Drawn(1) >= 3

-----------------------------------------------------------------------------
(* Claims on PedersenGenerators::commit, under SpecCommit *)

Committed(i) == commits[i] # None

\* C5: whenever the value and the blinding of one commitment are the sums,
\* in the scalar field, of those of two commitments made with the same
\* bases, its point is the sum of their points.
C5_Homomorphism ==
    \A i \in CommitIds, j \in CommitIds, k \in CommitIds :
        ( /\ Committed(i) /\ Committed(j) /\ Committed(k)
          /\ commits[k].value = ScalarAdd(commits[i].value, commits[j].value)
          /\ commits[k].blinding = ScalarAdd(commits[i].blinding, commits[j].blinding) )
        => commits[k].point = PointAdd(commits[i].point, commits[j].point)

\* three commitments under bases that are not the identity, the third to the
\* sums of the first two, with sums that wrap around the group order
C5_Witness ==
    /\ pg # None
    /\ pg.B # Identity /\ pg.B_blinding # Identity /\ pg.B # pg.B_blinding
    /\ Committed(1) /\ Committed(2) /\ Committed(3)
    /\ commits[1].value + commits[2].value >= GroupOrder
    /\ commits[1].blinding # 0 /\ commits[2].blinding # 0
    /\ commits[3].value = ScalarAdd(commits[1].value, commits[2].value)
    /\ commits[3].blinding = ScalarAdd(commits[1].blinding, commits[2].blinding)

\* C8 as stated: two commitments to one value under different blindings
\* differ, and two commitments to different values under one blinding differ,
\* whatever the bases.
C8_Sensitivity ==
    \A i \in CommitIds, j \in CommitIds :
        (Committed(i) /\ Committed(j)) =>
            /\ ( /\ commits[i].value = commits[j].value
                 /\ commits[i].blinding # commits[j].blinding )
               => commits[i].point # commits[j].point
            /\ ( /\ commits[i].blinding = commits[j].blinding
                 /\ commits[i].value # commits[j].value )
               => commits[i].point # commits[j].point

\* C8 amended: two commitments to one value under different blindings differ
\* exactly when B_blinding is not the identity, and two commitments to
\* different values under one blinding differ exactly when B is not the
\* identity.
C8_SensitivityUnlessIdentity ==
    \A i \in CommitIds, j \in CommitIds :
        (Committed(i) /\ Committed(j)) =>
            /\ ( /\ commits[i].value = commits[j].value
                 /\ commits[i].blinding # commits[j].blinding )
               => (commits[i].point # commits[j].point <=> pg.B_blinding # Identity)
            /\ ( /\ commits[i].blinding = commits[j].blinding
                 /\ commits[i].value # commits[j].value )
               => (commits[i].point # commits[j].point <=> pg.B # Identity)

\* commitments to one value under two blindings, and to two values under one
\* blinding, with neither base the identity
C8_Witness ==
    /\ pg # None
    /\ pg.B # Identity /\ pg.B_blinding # Identity
    /\ Committed(1) /\ Committed(2) /\ Committed(3)
    /\ commits[1].value = commits[2].value
    /\ commits[1].blinding # commits[2].blinding
    /\ commits[3].blinding = commits[1].blinding
    /\ commits[3].value # commits[1].value

-----------------------------------------------------------------------------
(* Claims on Generators, under SpecBank *)

HasBank(b) == banks[b] # None

\* the number of points Generators::new is asked for
Wanted(b) == banks[b].n * banks[b].m

\* C1 as stated: share(j) of a bank, for j below its parties, is a view,
\* whose G and H are the windows [bits*j, bits*(j+1)) of the G and H of all().
C1_ConcatenationLaw ==
    (last.op = "share" /\ last.j < banks[last.bank].m) =>
        LET gens == banks[last.bank]
            lower == gens.n * last.j
            upper == gens.n * (last.j + 1)
        IN  /\ last.status = "ok"
            /\ upper <= Len(All(gens).G) /\ upper <= Len(All(gens).H)
            /\ last.G = Slice(All(gens).G, lower, upper)
            /\ last.H = Slice(All(gens).H, lower, upper)

\* C2 as stated: share(j) of a bank, for j at or above its parties, ends in
\* an invalid-index error: it returns no view and it does not panic.
C2_OutOfRangeRejected ==
    (last.op = "share" /\ last.j >= banks[last.bank].m) =>
        last.status = "invalid_index_error"

\* C4 as stated: Generators::new succeeds for every bits and parties, and the
\* G and H of the bank, seen through all(), have bits*parties points each.
C4_BankDimensions ==
    (last.op = "new") =>
        /\ last.status = "ok"
        /\ HasBank(last.bank)
        /\ Len(All(banks[last.bank]).G) = Wanted(last.bank)
        /\ Len(All(banks[last.bank]).H) = Wanted(last.bank)

\* C6 as stated: the G and H of a bank are not elementwise equal.
C6_GHNeverEqual ==
    \A b \in BankIds :
        HasBank(b) => All(banks[b]).G # All(banks[b]).H

\* the table's row for the first point of the chain seeded by base P
Seeded(P) == oracle[DomainInit \o Compress(P)]

\* C6 amended: the G and H of a bank have one length, and are elementwise
\* equal exactly when they are empty or the chains seeded by B and by
\* B_blinding start at the same point, as they do when B = B_blinding.
C6_GHEqualExactly ==
    \A b \in BankIds :
        HasBank(b) =>
            LET view == All(banks[b])
                bases == banks[b].pedersen_generators
            IN  /\ Len(view.G) = Len(view.H)
                /\ view.G = view.H <=>
                        (view.G = <<>> \/ Seeded(bases.B) = Seeded(bases.B_blinding))
                /\ bases.B = bases.B_blinding => view.G = view.H

\* all() of a bank of four or more points from bases B = B_blinding
C6_Witness ==
    /\ HasBank(1)
    /\ last.op = "all" /\ last.status = "ok"
    /\ Len(last.G) >= 4
    /\ last.pedersen_generators.B = last.pedersen_generators.B_blinding
    /\ last.G = last.H

\* C9: a bank, once built, stays as it is under every call of all() and
\* share(j), also those that panic, and the view the last such call returned
\* is the one the same call would return now.
C9_Immutable ==
    /\ [][\A b \in BankIds : HasBank(b) => banks'[b] = banks[b]]_vars
    /\ [](\A b \in BankIds :
            /\ (last.bank = b /\ last.op = "all") =>
                    last = Called("all", b, 0, All(banks[b]))
            /\ (last.bank = b /\ last.op = "share") =>
                    last = Called("share", b, last.j,
                                  Share(banks[b], overflow_checks, last.j)))

\* a share(j) that panicked on a bank of six points
C9_Witness ==
    /\ HasBank(1)
    /\ Len(banks[1].G) = 6
    /\ last.op = "share"
    /\ last.j >= banks[1].m
    /\ last.status = "panic_slice_index"

-----------------------------------------------------------------------------
(* Claims on two banks of one configuration, under SpecPair *)

\* C7 as stated: two banks of the same bits and parties, bits*parties > 0,
\* built from bases that differ in B or in B_blinding, have no point of G in
\* common at any index, and no point of H.
C7_DifferentBasesShareNothing ==
    ( /\ HasBank(1) /\ HasBank(2)
      /\ banks[1].n = banks[2].n /\ banks[1].m = banks[2].m
      /\ Wanted(1) > 0
      /\ banks[1].pedersen_generators # banks[2].pedersen_generators )
    => /\ \A i \in 1 .. Min(Len(banks[1].G), Len(banks[2].G)) :
            banks[1].G[i] # banks[2].G[i]
       /\ \A i \in 1 .. Min(Len(banks[1].H), Len(banks[2].H)) :
            banks[1].H[i] # banks[2].H[i]

\* C7 amended: of two banks of the same bits and parties, the G vectors are
\* elementwise equal exactly when they are empty or the chains seeded by the
\* two B start at the same point, as they do when the two B are equal,
\* whatever the two B_blinding are; and likewise the H vectors and the two
\* B_blinding, whatever the two B are.
C7_VectorFollowsItsBase ==
    ( /\ HasBank(1) /\ HasBank(2)
      /\ banks[1].n = banks[2].n /\ banks[1].m = banks[2].m )
    => LET p == banks[1].pedersen_generators
           q == banks[2].pedersen_generators
       IN  /\ banks[1].G = banks[2].G <=>
                (banks[1].G = <<>> \/ Seeded(p.B) = Seeded(q.B))
           /\ banks[1].H = banks[2].H <=>
                (banks[1].H = <<>> \/ Seeded(p.B_blinding) = Seeded(q.B_blinding))
           /\ p.B = q.B => banks[1].G = banks[2].G
           /\ p.B_blinding = q.B_blinding => banks[1].H = banks[2].H

\* two banks of four or more points whose bases differ in B_blinding alone:
\* the same G, another H
C7_Witness ==
    /\ HasBank(1) /\ HasBank(2)
    /\ Len(banks[1].G) >= 4
    /\ banks[1].pedersen_generators.B = banks[2].pedersen_generators.B
    /\ banks[1].pedersen_generators.B_blinding
            # banks[2].pedersen_generators.B_blinding
    /\ banks[1].G = banks[2].G
    /\ banks[1].H # banks[2].H

====
